---- MODULE Spec2Model ----
(***************************************************************************)
(* Model of dm-scrape (src/main.go): the URL resolver ArticleInfoFromURL,  *)
(* the render/decode retry loop of main, the per-attempt page handling of  *)
(* scrapeComments, the decoder parseResp, the exporter CommentsToCSV and   *)
(* the process exits through MustNotErr, a run-time panic or a normal      *)
(* return of main.                                                         *)
(*                                                                         *)
(* Text is modelled as a sequence of one-character strings, so that the    *)
(* regular expression, strconv and encoding/csv work on characters.        *)
(***************************************************************************)
EXTENDS Integers, Sequences, FiniteSets, TLC

(***************************************************************************)
(* Bounds of the model.                                                    *)
(***************************************************************************)
\* longest path, in pieces, of a raw URL handed to ArticleInfoFromURL
MaxSegs == 4
\* longest Payload.Page handed to CommentsToCSV on its own
MaxPage == 2
\* longest Payload.Page a rendered text carries in a whole run
MaxRunPage == 1
\* how often CommentsToCSV is called on the same page
MaxExports == 2

(***************************************************************************)
(* Program constants.                                                      *)
(***************************************************************************)
Retries == 3

(***************************************************************************)
(* Characters.                                                             *)
(***************************************************************************)
Digit == {"0", "1", "2", "3", "4", "5", "6", "7", "8", "9"}

Letter == {"a", "b", "c", "d", "e", "f", "g", "h", "i", "j", "k", "l", "m",
           "n", "o", "p", "q", "r", "s", "t", "u", "v", "w", "x", "y", "z"}

\* \w of the regular expression
WordChar == Letter \cup Digit \cup {"_"}

\* [\w:/.] , the class of the pattern's leading run
LeadClass == WordChar \cup {":", "/", "."}

\* [\w-] , the class of the pattern's second group
NameClass == WordChar \cup {"-"}

\* the literal tail \.html of the pattern
DotHtml == <<".", "h", "t", "m", "l">>

RECURSIVE Concat(_)
\* the concatenation of a sequence of texts
Concat(ss) == IF ss = <<>> THEN <<>> ELSE Head(ss) \o Concat(Tail(ss))

\* whether text s holds text t at position i
HasAt(s, i, t) ==
    /\ i >= 1
    /\ i + Len(t) - 1 <= Len(s)
    /\ \A k \in 1..Len(t) : s[i + k - 1] = t[k]

\* the first position >= i of s holding a character of C, or Len(s) + 1
FirstIn(s, i, C) ==
    LET hits == {k \in i..Len(s) : s[k] \in C}
    IN  IF hits = {} THEN Len(s) + 1
        ELSE CHOOSE k \in hits : \A j \in hits : k <= j

\* the last position of the longest run of characters of C starting at i,
\* i - 1 when s[i] is not in C: how a greedy C+ extends
RunEnd(s, i, C) ==
    LET stops == {k \in i..Len(s) : s[k] \notin C}
    IN  IF stops = {} THEN Len(s)
        ELSE (CHOOSE k \in stops : \A j \in stops : k <= j) - 1

(***************************************************************************)
(* net/url as ArticleInfoFromURL uses it.                                  *)
(***************************************************************************)
\* url.Parse rejects a text holding an ASCII control character
ParseFails(s) == \E k \in 1..Len(s) : s[k] = "\t"

\* the position of the "://" ending the scheme, 0 when there is none
SchemeEnd(s) ==
    LET e == RunEnd(s, 1, Letter)
    IN  IF e >= 1 /\ HasAt(s, e + 1, <<":", "/", "/">>) THEN e ELSE 0

\* url.URL.Hostname: the authority without its port, "" without a scheme
Hostname(s) ==
    IF SchemeEnd(s) = 0 THEN <<>>
    ELSE LET from == SchemeEnd(s) + 4
             to   == FirstIn(s, from, {"/", "?", "#", ":"}) - 1
         IN  SubSeq(s, from, to)

RECURSIVE Escape(_)
\* the escaping url.URL.String applies to a path: a space becomes %20
Escape(s) ==
    IF s = <<>> THEN <<>>
    ELSE (IF Head(s) = " " THEN <<"%", "2", "0">> ELSE <<Head(s)>>)
         \o Escape(Tail(s))

\* url.URL.String of a parsed URL: the text again, its path escaped
URLString(s) ==
    LET q == FirstIn(s, 1, {"?", "#"})
    IN  Escape(SubSeq(s, 1, q - 1)) \o SubSeq(s, q, Len(s))

WantedHost ==
    <<"w", "w", "w", ".", "d", "a", "i", "l", "y", "m", "a", "i", "l", ".",
      "c", "o", ".", "u", "k">>

(***************************************************************************)
(* urlMatcher: [\w:/.]+-(\d+)/([\w-]+)\.html , leftmost match, greedy.     *)
(***************************************************************************)
\* the match of the pattern that starts at position p of s, as positions:
\* the three runs are delimited by characters outside their own class, so
\* each greedy run extends to its RunEnd and backtracking finds no other
MatchAt(s, p) ==
    LET e1 == RunEnd(s, p, LeadClass)
        d0 == e1 + 2
        e2 == RunEnd(s, d0, Digit)
        n0 == e2 + 2
        e3 == RunEnd(s, n0, NameClass)
    IN  [ok |-> /\ e1 >= p
                /\ HasAt(s, e1 + 1, <<"-">>)
                /\ e2 >= d0
                /\ HasAt(s, e2 + 1, <<"/">>)
                /\ e3 >= n0
                /\ HasAt(s, e3 + 1, DotHtml),
         d0 |-> d0, e2 |-> e2, n0 |-> n0, e3 |-> e3]

\* regexp.FindStringSubmatch: nil, or the two groups of the leftmost match
FindStringSubmatch(s) ==
    LET starts == {p \in 1..Len(s) : MatchAt(s, p).ok}
    IN  IF starts = {} THEN [match |-> FALSE, g1 |-> <<>>, g2 |-> <<>>]
        ELSE LET p == CHOOSE q \in starts : \A r \in starts : q <= r
                 m == MatchAt(s, p)
             IN  [match |-> TRUE,
                  g1 |-> SubSeq(s, m.d0, m.e2),
                  g2 |-> SubSeq(s, m.n0, m.e3)]

(***************************************************************************)
(* strconv.                                                                *)
(***************************************************************************)
DigitVal(c) ==
    CASE c = "0" -> 0 [] c = "1" -> 1 [] c = "2" -> 2 [] c = "3" -> 3
      [] c = "4" -> 4 [] c = "5" -> 5 [] c = "6" -> 6 [] c = "7" -> 7
      [] c = "8" -> 8 [] c = "9" -> 9

DigitChar(d) ==
    CASE d = 0 -> "0" [] d = 1 -> "1" [] d = 2 -> "2" [] d = 3 -> "3"
      [] d = 4 -> "4" [] d = 5 -> "5" [] d = 6 -> "6" [] d = 7 -> "7"
      [] d = 8 -> "8" [] d = 9 -> "9"

RECURSIVE StripZeros(_)
\* a numeral without its leading zeros ("0" stays "0")
StripZeros(ds) ==
    IF Len(ds) > 1 /\ Head(ds) = "0" THEN StripZeros(Tail(ds)) ELSE ds

\* the numeral of the largest int, 1<<63 - 1
MaxIntDigits ==
    <<"9", "2", "2", "3", "3", "7", "2", "0", "3", "6", "8", "5", "4", "7",
      "7", "5", "8", "0", "7">>

\* whether numeral a (no leading zeros) is at most numeral b of equal length
NumeralLeq(a, b) ==
    \/ a = b
    \/ \E k \in 1..Len(a) :
          /\ \A j \in 1..(k - 1) : a[j] = b[j]
          /\ DigitVal(a[k]) < DigitVal(b[k])

\* whether a run of digits is in the range of int (64 bits)
InIntRange(ds) ==
    LET n == StripZeros(ds)
    IN  \/ Len(n) < Len(MaxIntDigits)
        \/ Len(n) = Len(MaxIntDigits) /\ NumeralLeq(n, MaxIntDigits)

RECURSIVE DecValue(_, _)
\* the value of a run of digits, most significant first
DecValue(ds, acc) ==
    IF ds = <<>> THEN acc
    ELSE DecValue(Tail(ds), 10 * acc + DigitVal(Head(ds)))

\* strconv.Atoi on a run of digits: a range error, or the value
Atoi(ds) ==
    IF InIntRange(ds) THEN [err |-> FALSE, val |-> DecValue(StripZeros(ds), 0)]
    ELSE [err |-> TRUE, val |-> 0]

RECURSIVE NatDigits(_)
\* the base-10 numeral of a natural number
NatDigits(n) ==
    IF n < 10 THEN <<DigitChar(n)>>
    ELSE NatDigits(n \div 10) \o <<DigitChar(n % 10)>>

\* strconv.Itoa and strconv.FormatInt(_, 10)
Itoa(n) == IF n < 0 THEN <<"-">> \o NatDigits(0 - n) ELSE NatDigits(n)

\* strconv.FormatBool
FormatBool(b) ==
    IF b THEN <<"t", "r", "u", "e">> ELSE <<"f", "a", "l", "s", "e">>

(***************************************************************************)
(* ArticleInfoFromURL.                                                     *)
(***************************************************************************)
\* the *ArticleInfo before ArticleInfoFromURL has run
NoInfo == [ok |-> FALSE, err |-> "unset", ID |-> 0, Name |-> <<>>]

InvalidURL(why) == [ok |-> FALSE, err |-> why, ID |-> 0, Name |-> <<>>]

\* every error ArticleInfoFromURL returns wraps ErrInvalidURL
ErrInvalidURL ==
    {"invalid URL", "URL didn't match expected structure",
     "couldn't convert article ID to an integer",
     "failed to parse name from daily mail URL"}

ArticleInfoFromURL(dmURL) ==
    IF ParseFails(dmURL) \/ Hostname(dmURL) /= WantedHost
    THEN InvalidURL("invalid URL")
    ELSE LET match == FindStringSubmatch(URLString(dmURL))
         IN  IF ~match.match
             THEN InvalidURL("URL didn't match expected structure")
             ELSE LET id == Atoi(match.g1)
                  IN  IF id.err
                      THEN InvalidURL("couldn't convert article ID to an integer")
                      ELSE IF match.g2 = <<>>
                      THEN InvalidURL("failed to parse name from daily mail URL")
                      ELSE [ok |-> TRUE, err |-> "nil",
                            ID |-> id.val, Name |-> match.g2]

(***************************************************************************)
(* Comment, Payload, CommentResponse.  A *Comment is <<>> (nil) or <<c>>.  *)
(***************************************************************************)
NilPtr == <<>>

Ptr(c) == <<c>>

\* the field values of the comments of the model: three authors ...
Authors ==
    { [UserAlias |-> <<"x">>, UserLocation |-> <<>>, AssetID |-> 0,
       VoteCount |-> 0, ID |-> 42, HasProfilePicture |-> TRUE,
       VoteRating |-> 0 - 3, AssetCommentCount |-> 0],
      [UserAlias |-> <<>>, UserLocation |-> <<"U", "K", ",", " ", "x">>,
       AssetID |-> 1234567, VoteCount |-> 15, ID |-> 100,
       HasProfilePicture |-> FALSE, VoteRating |-> 0,
       AssetCommentCount |-> 506],
      [UserAlias |-> <<" ", "a">>, UserLocation |-> <<"\\", ".">>,
       AssetID |-> 0 - 1, VoteCount |-> 0 - 20, ID |-> 7,
       HasProfilePicture |-> TRUE, VoteRating |-> 12,
       AssetCommentCount |-> 1] }

\* ... and four messages: plain, with a comma, with a quote, with a line break
Messages ==
    { <<"h", "i">>, <<"a", ",", "b">>, <<"q", "\"", "q">>, <<"l", "\n", "m">> }

Comments ==
    { [UserAlias |-> a.UserAlias, UserLocation |-> a.UserLocation,
       FormattedDate |-> <<>>, AssetID |-> a.AssetID,
       VoteCount |-> a.VoteCount, ID |-> a.ID, UserIdentifier |-> <<>>,
       HasProfilePicture |-> a.HasProfilePicture,
       VoteRating |-> a.VoteRating, DateCreated |-> <<>>,
       AssetCommentCount |-> a.AssetCommentCount, AssetURL |-> <<>>,
       Message |-> m] : a \in Authors, m \in Messages }

\* what json.Unmarshal can place in an entry of Payload.Page ([]*Comment):
\* a comment for a JSON object, nil for a JSON null
PageEntries == {NilPtr} \cup {Ptr(c) : c \in Comments}

\* the values of Payload.Page of at most n entries
Pages(n) == UNION {[1..k -> PageEntries] : k \in 0..n}

Payload(page) == [Total |-> Len(page), Max |-> 506, Page |-> page]

CommentResponse(page) ==
    [Status |-> "success", Code |-> "200", Payload |-> Payload(page)]

(***************************************************************************)
(* encoding/csv as CommentsToCSV uses it (Comma = ',', UseCRLF = false).   *)
(***************************************************************************)
\* csv.Writer.fieldNeedsQuotes
FieldNeedsQuotes(field) ==
    IF field = <<>> THEN FALSE
    ELSE IF field = <<"\\", ".">> THEN TRUE
    ELSE IF \E k \in 1..Len(field) : field[k] \in {"\n", "\r", "\"", ","}
    THEN TRUE
    ELSE field[1] \in {" ", "\t"}

RECURSIVE QuoteBody(_)
\* the inside of a quoted field: every quote doubled
QuoteBody(field) ==
    IF field = <<>> THEN <<>>
    ELSE (IF Head(field) = "\"" THEN <<"\"", "\"">> ELSE <<Head(field)>>)
         \o QuoteBody(Tail(field))

\* one field as csv.Writer.Write emits it
WriteField(field) ==
    IF FieldNeedsQuotes(field)
    THEN <<"\"">> \o QuoteBody(field) \o <<"\"">>
    ELSE field

RECURSIVE JoinFields(_)
\* the fields of a record, separated by commas
JoinFields(record) ==
    IF Len(record) = 1 THEN WriteField(record[1])
    ELSE WriteField(record[1]) \o <<",">> \o JoinFields(Tail(record))

\* csv.Writer.Write of one record: its fields, then a line feed
WriterWrite(record) == JoinFields(record) \o <<"\n">>

(***************************************************************************)
(* CommentsToCSV.                                                          *)
(***************************************************************************)
headers ==
    << <<"u","s","e","r","-","a","l","i","a","s">>,
       <<"u","s","e","r","-","l","o","c","a","t","i","o","n">>,
       <<"f","o","r","m","a","t","t","e","d","-","d","a","t","e","-",
         "a","n","d","-","t","i","m","e">>,
       <<"a","s","s","e","t","-","i","d">>,
       <<"v","o","t","e","-","c","o","u","n","t">>,
       <<"i","d">>,
       <<"u","s","e","r","-","i","d","e","n","t","i","f","i","e","r">>,
       <<"h","a","s","-","p","r","o","f","i","l","e","-",
         "p","i","c","t","u","r","e">>,
       <<"v","o","t","e","-","r","a","t","i","n","g">>,
       <<"d","a","t","e","-","c","r","e","a","t","e","d">>,
       <<"a","s","s","e","t","-","c","o","m","m","e","n","t","-",
         "c","o","u","n","t">>,
       <<"a","s","s","e","t","-","u","r","l">>,
       <<"m","e","s","s","a","g","e">> >>

\* the row of one comment
Row(c) ==
    << c.UserAlias, c.UserLocation, c.FormattedDate, Itoa(c.AssetID),
       Itoa(c.VoteCount), Itoa(c.ID), c.UserIdentifier,
       FormatBool(c.HasProfilePicture), Itoa(c.VoteRating), c.DateCreated,
       Itoa(c.AssetCommentCount), c.AssetURL, c.Message >>

RECURSIVE WriteRows_Reversed(_)
\* the loop over comments run from the last comment to the first
WriteRows_Reversed(comments) ==
    IF comments = <<>> THEN <<>>
    ELSE WriteRows_Reversed(Tail(comments))
         \o WriterWrite(Row(Head(comments)[1]))

RECURSIVE WriteRows(_)
\* the loop over comments: one Write per comment, in slice order
WriteRows(comments) ==
    IF comments = <<>> THEN <<>>
    ELSE WriterWrite(Row(Head(comments)[1])) \o WriteRows(Tail(comments))

NoTable == [panic |-> FALSE, err |-> "none", data |-> <<>>]

\* CommentsToCSV: reading a field of a nil *Comment is a run-time panic; a
\* fault of the underlying writer is returned as the error; otherwise the
\* buffer holds the header and the rows
CommentsToCSV(comments, fault) ==
    IF fault THEN [panic |-> FALSE, err |-> "write fault", data |-> <<>>]
    ELSE IF \E i \in 1..Len(comments) : comments[i] = NilPtr
    THEN [panic |-> TRUE, err |-> "nil pointer dereference", data |-> <<>>]
    ELSE [panic |-> FALSE, err |-> "nil",
          data |-> WriterWrite(headers) \o WriteRows(comments)]

(***************************************************************************)
(* The raw URLs of the model.                                              *)
(***************************************************************************)
HostGood ==
    <<"h", "t", "t", "p", "s", ":", "/", "/">> \o WantedHost

HostOther ==
    <<"h", "t", "t", "p", "s", ":", "/", "/", "w", "w", "w", ".", "e", "x",
      ".", "c", "o", "m">>

\* no scheme: url.Parse takes the whole text as a path, the host is empty
HostBare == WantedHost

Prefixes == {HostGood, HostOther, HostBare}

PNews == <<"/", "n", "e", "w", "s">>

PArticle123 == <<"/", "a", "r", "t", "i", "c", "l", "e", "-", "1", "2", "3">>

PHeadline ==
    <<"/", "s", "o", "m", "e", "-", "h", "e", "a", "d", "l", "i", "n", "e",
      ".", "h", "t", "m", "l">>

PA1 == <<"/", "a", "-", "1">>

PB == <<"/", "b", ".", "h", "t", "m", "l">>

PArticle0 == <<"/", "a", "r", "t", "i", "c", "l", "e", "-", "0">>

\* a numeric segment of twenty digits, beyond the range of int
PArticleBig ==
    <<"/", "a", "-", "9", "9", "9", "9", "9", "9", "9", "9", "9", "9", "9",
      "9", "9", "9", "9", "9", "9", "9", "9", "9">>

\* a name with a space, which url.URL.String escapes
PSpace == <<"/", "a", " ", "b", ".", "h", "t", "m", "l">>

\* a control character, which url.Parse rejects
PCtl == <<"/", "\t">>

Pieces ==
    {PNews, PArticle123, PHeadline, PA1, PB, PArticle0, PArticleBig, PSpace,
     PCtl}

\* every raw URL of at most n pieces
URLs(n) ==
    {pre \o Concat(ps) : pre \in Prefixes,
                         ps \in UNION {[1..k -> Pieces] : k \in 1..n}}

\* the raw URLs whole runs are started with
RunURLs ==
    { HostGood \o PNews \o PArticle123 \o PHeadline,
      HostGood \o PNews \o PArticle0 \o PB,
      HostOther \o PNews \o PArticle123 \o PHeadline,
      HostGood \o PNews }

(***************************************************************************)
(* The rendered texts and parseResp.                                       *)
(***************************************************************************)
\* the text of the <pre> element: malformed or incomplete JSON, or JSON
\* encoding a CommentResponse with the given page
Texts(n) ==
    {[valid |-> FALSE, page |-> <<>>]}
        \cup {[valid |-> TRUE, page |-> p] : p \in Pages(n)}

NoText == [valid |-> FALSE, page |-> <<>>]

\* parseResp: json.Unmarshal's error and a nil response, or the response
parseResp(body) ==
    IF body.valid
    THEN [resp |-> Ptr(CommentResponse(body.page)), err |-> "nil"]
    ELSE [resp |-> NilPtr, err |-> "unexpected end of JSON input"]

(***************************************************************************)
(* The state of one run of main.                                           *)
(***************************************************************************)
VARIABLES
    rawURL,        \* os.Args[1]
    aInfo,         \* the result of ArticleInfoFromURL
    pc,            \* where main (or scrapeComments) stands
    browser,       \* "none", "open" or "closed"
    page,          \* scrapeComments' local page: "nil" or "set"
    openPages,     \* the number of pages open in the browser
    retries,       \* main's retries
    renders,       \* the number of calls of scrapeComments so far
    log,           \* the outcome of each finished attempt, in order
    rawComments,   \* the text scrapeComments returned
    scrapeErr,     \* the error scrapeComments returned
    commentResp,   \* main's commentResp: NilPtr or Ptr(response)
    parseErr,      \* the last error of parseResp
    commentsAsCSV, \* the result of CommentsToCSV in main
    files,         \* the calls of os.WriteFile, in order
    stderr,        \* what the process wrote as its failure message
    exitCode,      \* -1 while running, then the exit code
    comments,      \* the argument of CommentsToCSV checked on its own
    table          \* the results of those calls, in order

vars ==
    <<rawURL, aInfo, pc, browser, page, openPages, retries, renders, log,
      rawComments, scrapeErr, commentResp, parseErr, commentsAsCSV, files,
      stderr, exitCode, comments, table>>

runVars ==
    <<aInfo, pc, browser, page, openPages, retries, renders, log,
      rawComments, scrapeErr, commentResp, parseErr, commentsAsCSV, files,
      stderr, exitCode>>

Idle ==
    /\ aInfo = NoInfo
    /\ pc = "start"
    /\ browser = "none"
    /\ page = "nil"
    /\ openPages = 0
    /\ retries = 0
    /\ renders = 0
    /\ log = <<>>
    /\ rawComments = NoText
    /\ scrapeErr = "nil"
    /\ commentResp = NilPtr
    /\ parseErr = "nil"
    /\ commentsAsCSV = NoTable
    /\ files = <<>>
    /\ stderr = <<>>
    /\ exitCode = 0 - 1

Init ==
    /\ rawURL \in RunURLs
    /\ Idle
    /\ comments = <<>>
    /\ table = <<>>

(***************************************************************************)
(* Leaving the process.                                                    *)
(***************************************************************************)
\* MustNotErr that reports the error and returns to its caller
MustNotErrExits_Never(err) == FALSE

\* MustNotErr returns when err is nil and exits otherwise
MustNotErrExits(err) == err /= "nil"

\* MustNotErr(err, msg) followed by the statement at next: os.Exit(1) ends
\* the process at once, the deferred calls of main do not run
MustNotErr(err, msg, next) ==
    IF MustNotErrExits(err)
    THEN /\ stderr' = <<"Failed to scrape", msg, err>>
         /\ exitCode' = 1
         /\ pc' = "exited"
         /\ UNCHANGED browser
    ELSE /\ pc' = next
         /\ UNCHANGED <<stderr, exitCode, browser>>

\* a run-time panic in main: the deferred browser.Close() and logger.Sync()
\* run, then the runtime prints the panic and exits with status 2
Panic(msg) ==
    /\ browser' = "closed"
    /\ stderr' = <<"panic: runtime error", msg>>
    /\ exitCode' = 2
    /\ pc' = "exited"

(***************************************************************************)
(* main, up to the loop.                                                   *)
(***************************************************************************)
Resolve ==
    /\ pc = "start"
    /\ aInfo' = ArticleInfoFromURL(rawURL)
    /\ MustNotErr(aInfo'.err, "failed to parse article info", "connect")
    /\ UNCHANGED <<rawURL, page, openPages, retries, renders, log,
                   rawComments, scrapeErr, commentResp, parseErr,
                   commentsAsCSV, files, comments, table>>

Connect ==
    /\ pc = "connect"
    /\ browser' = "open"
    /\ retries' = 0
    /\ commentResp' = NilPtr
    /\ pc' = "loop"
    /\ UNCHANGED <<rawURL, aInfo, page, openPages, renders, log, rawComments,
                   scrapeErr, parseErr, commentsAsCSV, files, stderr,
                   exitCode, comments, table>>

(***************************************************************************)
(* scrapeComments, one step per call into the browser.                     *)
(***************************************************************************)
\* the loop condition written with < : one attempt fewer
LoopContinues_OffByOne(r) == r < Retries

\* the loop condition of main
LoopContinues(r) == r <= Retries

\* what the deferred page.Close() leaves open: it is registered only once
\* the page variable is set
AfterDefer(n, p) == IF p = "set" THEN n - 1 ELSE n

\* scrapeComments returns (text, err) to main; its deferred call runs
ScrapeReturns(text, err, n, p) ==
    /\ rawComments' = text
    /\ scrapeErr' = err
    /\ openPages' = AfterDefer(n, p)
    /\ page' = "nil"
    /\ pc' = "returned"

\* the loop test succeeds and scrapeComments starts: browser.MustPage()
\* and MustWaitStable() inside rod.Try.  MustPage may panic before a page
\* exists; MustWaitStable may panic after it was created, and then the
\* assignment to the page variable never happens
ScrapeSetup ==
    /\ pc = "loop"
    /\ LoopContinues(retries)
    /\ renders' = renders + 1
    /\ \/ ScrapeReturns(NoText, "failed to setup browser", openPages, "nil")
       \/ ScrapeReturns(NoText, "failed to setup browser", openPages + 1,
                        "nil")
       \/ /\ openPages' = openPages + 1
          /\ page' = "set"
          /\ pc' = "navigate"
          /\ UNCHANGED <<rawComments, scrapeErr>>
    /\ UNCHANGED <<rawURL, aInfo, browser, retries, log, commentResp,
                   parseErr, commentsAsCSV, files, stderr, exitCode,
                   comments, table>>

\* page.Timeout(...).MustNavigate(a.commentsEndpoint()) inside rod.Try
Navigate ==
    /\ pc = "navigate"
    /\ \/ ScrapeReturns(NoText, "too long waiting for comments to load",
                        openPages, page)
       \/ ScrapeReturns(NoText, "failed to fetch comments", openPages, page)
       \/ /\ pc' = "element"
          /\ UNCHANGED <<rawComments, scrapeErr, openPages, page>>
    /\ UNCHANGED <<rawURL, aInfo, browser, retries, renders, log,
                   commentResp, parseErr, commentsAsCSV, files, stderr,
                   exitCode, comments, table>>

\* page.Element(JSONTag)
Element ==
    /\ pc = "element"
    /\ \/ ScrapeReturns(NoText, "failed to get text from pre tag",
                        openPages, page)
       \/ /\ pc' = "text"
          /\ UNCHANGED <<rawComments, scrapeErr, openPages, page>>
    /\ UNCHANGED <<rawURL, aInfo, browser, retries, renders, log,
                   commentResp, parseErr, commentsAsCSV, files, stderr,
                   exitCode, comments, table>>

\* el.Text() and the return of strings.NewReader(text)
Text ==
    /\ pc = "text"
    /\ \/ ScrapeReturns(NoText, "failed to retrieve text from webpage",
                        openPages, page)
       \/ \E t \in Texts(MaxRunPage) :
              ScrapeReturns(t, "nil", openPages, page)
    /\ UNCHANGED <<rawURL, aInfo, browser, retries, renders, log,
                   commentResp, parseErr, commentsAsCSV, files, stderr,
                   exitCode, comments, table>>

(***************************************************************************)
(* main: the loop body after scrapeComments, and the loop's end.           *)
(***************************************************************************)
\* MustNotErr(err, "failed to scrape comments")
CheckScrape ==
    /\ pc = "returned"
    /\ MustNotErr(scrapeErr, "failed to scrape comments", "parse")
    /\ log' = IF pc' = "exited" THEN Append(log, "render error") ELSE log
    /\ UNCHANGED <<rawURL, aInfo, page, openPages, retries, renders,
                   rawComments, scrapeErr, commentResp, parseErr,
                   commentsAsCSV, files, comments, table>>

\* commentResp, err = aInfo.parseResp(rawComments); break on success,
\* otherwise retries++
Parse ==
    /\ pc = "parse"
    /\ LET r == parseResp(rawComments)
       IN  /\ commentResp' = r.resp
           /\ parseErr' = r.err
           /\ IF r.err = "nil"
              THEN /\ pc' = "save"
                   /\ log' = Append(log, "decoded")
                   /\ UNCHANGED retries
              ELSE /\ retries' = retries + 1
                   /\ pc' = "loop"
                   /\ log' = Append(log, "decode error")
    /\ UNCHANGED <<rawURL, aInfo, browser, page, openPages, renders,
                   rawComments, scrapeErr, commentsAsCSV, files, stderr,
                   exitCode, comments, table>>

\* the loop test fails: control falls through to the export
LoopExit ==
    /\ pc = "loop"
    /\ ~LoopContinues(retries)
    /\ pc' = "save"
    /\ UNCHANGED <<rawURL, aInfo, browser, page, openPages, retries, renders,
                   log, rawComments, scrapeErr, commentResp, parseErr,
                   commentsAsCSV, files, stderr, exitCode, comments, table>>

(***************************************************************************)
(* main: the export, the file and the end.                                 *)
(***************************************************************************)
\* CommentsToCSV(commentResp.Payload.Page) and MustNotErr: reading Payload
\* of a nil commentResp is a run-time panic, as is a nil entry of the page
Save ==
    /\ pc = "save"
    /\ IF commentResp = NilPtr
       THEN /\ Panic("nil pointer dereference")
            /\ UNCHANGED commentsAsCSV
       ELSE \E fault \in BOOLEAN :
              LET t == CommentsToCSV(commentResp[1].Payload.Page, fault)
              IN  IF t.panic
                  THEN /\ Panic(t.err)
                       /\ UNCHANGED commentsAsCSV
                  ELSE /\ commentsAsCSV' = t
                       /\ MustNotErr(t.err,
                                     "failed to format comments as CSV",
                                     "write")
    /\ UNCHANGED <<rawURL, aInfo, page, openPages, retries, renders, log,
                   rawComments, scrapeErr, commentResp, parseErr, files,
                   comments, table>>

\* the name of the output file
Filename(a) ==
    a.Name \o <<"-", "c", "o", "m", "m", "e", "n", "t", "s", ".", "c", "s",
                "v">>

\* io.ReadAll, os.WriteFile(filename, bts, 0o777) and MustNotErr
WriteFile ==
    /\ pc = "write"
    /\ \E err \in {"nil", "write failed"} :
          /\ files' = Append(files, [name |-> Filename(aInfo),
                                     data |-> commentsAsCSV.data,
                                     err |-> err])
          /\ MustNotErr(err, "failed to save comments to file", "written")
    /\ UNCHANGED <<rawURL, aInfo, page, openPages, retries, renders, log,
                   rawComments, scrapeErr, commentResp, parseErr,
                   commentsAsCSV, comments, table>>

\* main returns: the deferred browser.Close() and logger.Sync() run
Return ==
    /\ pc = "written"
    /\ browser' = "closed"
    /\ exitCode' = 0
    /\ pc' = "exited"
    /\ UNCHANGED <<rawURL, aInfo, page, openPages, retries, renders, log,
                   rawComments, scrapeErr, commentResp, parseErr,
                   commentsAsCSV, files, stderr, comments, table>>

Next ==
    \/ Resolve
    \/ Connect
    \/ ScrapeSetup
    \/ Navigate
    \/ Element
    \/ Text
    \/ CheckScrape
    \/ Parse
    \/ LoopExit
    \/ Save
    \/ WriteFile
    \/ Return

Spec == Init /\ [][Next]_vars

(***************************************************************************)
(* ArticleInfoFromURL on its own, over every raw URL of the model.         *)
(***************************************************************************)
InitURL ==
    /\ rawURL \in URLs(MaxSegs)
    /\ Idle
    /\ comments = <<>>
    /\ table = <<>>

NextURL == Resolve

SpecURL == InitURL /\ [][NextURL]_vars

(***************************************************************************)
(* CommentsToCSV on its own, over every page of the model.                 *)
(***************************************************************************)
InitCSV ==
    /\ rawURL = HostGood
    /\ Idle
    /\ comments \in Pages(MaxPage)
    /\ table = <<>>

Export ==
    /\ Len(table) < MaxExports
    /\ \E fault \in BOOLEAN :
          table' = Append(table, CommentsToCSV(comments, fault))
    /\ UNCHANGED <<rawURL, runVars, comments>>

NextCSV == Export

SpecCSV == InitCSV /\ [][NextCSV]_vars

(***************************************************************************)
(* Properties of CommentsToCSV.  The table is read back as a CSV reader    *)
(* reads it: fields end at a comma, rows at a line feed, a field that      *)
(* opens with a quote runs to its closing quote, "" inside it is a quote.  *)
(***************************************************************************)
\* whether position k of s lies outside every quoted field: an even number
\* of quotes precedes it
Outside(s, k) == Cardinality({q \in 1..(k - 1) : s[q] = "\""}) % 2 = 0

\* the positions of character c of s outside the quoted fields
Seps(s, c) == {k \in 1..Len(s) : s[k] = c /\ Outside(s, k)}

RECURSIVE SplitAt(_, _, _, _)
\* the pieces of s from position from on, cut at the positions cuts; the
\* piece after the last cut counts when keepLast, or when it is not empty
SplitAt(s, from, cuts, keepLast) ==
    IF cuts = {}
    THEN IF keepLast \/ from <= Len(s) THEN <<SubSeq(s, from, Len(s))>>
         ELSE <<>>
    ELSE LET k == CHOOSE c \in cuts : \A d \in cuts : c <= d
         IN  <<SubSeq(s, from, k - 1)>>
                \o SplitAt(s, k + 1, cuts \ {k}, keepLast)

RECURSIVE Undouble(_)
\* the inside of a quoted field with every "" read as one quote
Undouble(f) ==
    IF f = <<>> THEN <<>>
    ELSE IF Len(f) >= 2 /\ f[1] = "\"" /\ f[2] = "\""
    THEN <<"\"">> \o Undouble(SubSeq(f, 3, Len(f)))
    ELSE <<Head(f)>> \o Undouble(Tail(f))

\* the text of a field as it stands in the table
Unquote(f) ==
    IF Len(f) >= 2 /\ f[1] = "\"" /\ f[Len(f)] = "\""
    THEN Undouble(SubSeq(f, 2, Len(f) - 1))
    ELSE f

\* the fields of one row
ReadRow(r) ==
    LET fs == SplitAt(r, 1, Seps(r, ","), TRUE)
    IN  [k \in 1..Len(fs) |-> Unquote(fs[k])]

\* the rows of a table, each the sequence of its fields
ReadCSV(s) ==
    LET rs == SplitAt(s, 1, Seps(s, "\n"), FALSE)
    IN  [k \in 1..Len(rs) |-> ReadRow(rs[k])]

\* the integer a base-10 numeral with an optional sign denotes
SignedValue(t) ==
    IF t /= <<>> /\ Head(t) = "-" THEN 0 - DecValue(Tail(t), 0)
    ELSE DecValue(t, 0)

\* whether row r of 13 fields renders comment c, column by column
Renders(r, c) ==
    /\ Len(r) = 13
    /\ r[1] = c.UserAlias
    /\ r[2] = c.UserLocation
    /\ r[3] = c.FormattedDate
    /\ r[4] /= <<>> /\ SignedValue(r[4]) = c.AssetID
    /\ r[5] /= <<>> /\ SignedValue(r[5]) = c.VoteCount
    /\ r[6] /= <<>> /\ SignedValue(r[6]) = c.ID
    /\ r[7] = c.UserIdentifier
    /\ r[8] = (IF c.HasProfilePicture THEN <<"t", "r", "u", "e">>
               ELSE <<"f", "a", "l", "s", "e">>)
    /\ r[9] /= <<>> /\ SignedValue(r[9]) = c.VoteRating
    /\ r[10] = c.DateCreated
    /\ r[11] /= <<>> /\ SignedValue(r[11]) = c.AssetCommentCount
    /\ r[12] = c.AssetURL
    /\ r[13] = c.Message

\* the page holds comment records only, no nil entry
AllRecords(pg) == \A i \in 1..Len(pg) : pg[i] /= NilPtr

\* C7: on a sequence of n comment records (and no write fault)
\* CommentsToCSV returns a table of exactly n + 1 rows: the 13 column names
\* first, then row i + 1 rendering the i-th record; n = 0 gives the header
\* alone; and two exports of the same sequence give the same bytes.
C7_RowsInInputOrder ==
    /\ \A e \in 1..Len(table) :
          (AllRecords(comments) /\ table[e].err /= "write fault")
             => /\ ~table[e].panic
                /\ table[e].err = "nil"
                /\ LET rows == ReadCSV(table[e].data)
                   IN  /\ Len(rows) = Len(comments) + 1
                       /\ Len(rows[1]) = 13
                       /\ rows[1] = headers
                       /\ \A i \in 1..Len(comments) :
                             Renders(rows[i + 1], comments[i][1])
    /\ \A e, f \in 1..Len(table) :
          (table[e].err = "nil" /\ table[f].err = "nil")
             => table[e].data = table[f].data

C7_Witness ==
    /\ Len(table) = 2
    /\ table[1].err = "nil"
    /\ table[2].err = "nil"
    /\ Len(comments) = 2
    /\ AllRecords(comments)
    /\ comments[1] /= comments[2]
    /\ comments[1][1].Message = <<"l", "\n", "m">>
    /\ Len(ReadCSV(table[1].data)) = 3

\* C8: for every page the decoder can hand over, CommentsToCSV returns a
\* table unless the underlying writer faults.
C8_NeverFailsOnContent ==
    \A e \in 1..Len(table) :
       table[e].err /= "write fault"
          => /\ ~table[e].panic
             /\ table[e].err = "nil"

(***************************************************************************)
(* Properties of the retry loop.                                           *)
(***************************************************************************)
\* the positions of main after the loop
AfterLoop == {"save", "write", "written", "exited"}

\* the loop was left because every decode failed
Exhausted ==
    /\ pc \in AfterLoop
    /\ browser /= "none"
    /\ commentResp = NilPtr
    /\ \A k \in 1..Len(log) : log[k] /= "render error"

\* C1: with every render succeeding, exactly Retries + 1 = 4 calls of
\* scrapeComments are made when every decode fails, and exactly k when the
\* first decode to succeed is that of attempt k (k <= Retries + 1); the loop
\* then stops with that response and starts no further attempt.
C1_RetryBound ==
    /\ renders <= Retries + 1
    /\ Exhausted =>
          /\ renders = Retries + 1
          /\ log = [k \in 1..(Retries + 1) |-> "decode error"]
    /\ \A k \in 1..Len(log) :
          log[k] = "decoded" =>
             /\ k = Len(log)
             /\ renders = k
             /\ k <= Retries + 1
             /\ \A j \in 1..(k - 1) : log[j] = "decode error"
             /\ pc \in AfterLoop
             /\ commentResp = parseResp(rawComments).resp
             /\ commentResp /= NilPtr

C1_Witness ==
    /\ pc = "save"
    /\ commentResp = NilPtr
    /\ renders = Retries + 1
    /\ Len(log) = Retries + 1

\* C2: when all Retries + 1 attempts ended in a decode error the run is
\* reported as a pipeline failure carrying the last decode error ("Failed to
\* scrape, <context>: <error>", exit status 1), and the export is never
\* entered with a missing response.
C2_ExhaustedReported ==
    /\ pc = "save" => commentResp /= NilPtr
    /\ (Exhausted /\ pc = "exited") =>
          /\ exitCode = 1
          /\ Len(stderr) = 3
          /\ stderr[1] = "Failed to scrape"
          /\ stderr[3] = parseErr

\* C3: an error of scrapeComments on attempt i ends the run at once: i calls
\* of scrapeComments were made, the i - 1 earlier attempts each ended in a
\* decode error, the failing attempt is not decoded, no later attempt starts
\* and the process exits with status 1 and the render error in its message.
C3_RenderFailureNotRetried ==
    scrapeErr /= "nil" =>
       /\ pc \in {"returned", "exited"}
       /\ renders = Len(log) + (IF pc = "returned" THEN 1 ELSE 0)
       /\ \A j \in 1..(renders - 1) : log[j] = "decode error"
       /\ pc = "exited" =>
             /\ log[Len(log)] = "render error"
             /\ exitCode = 1
             /\ stderr = <<"Failed to scrape", "failed to scrape comments",
                           scrapeErr>>

C3_Witness ==
    /\ pc = "exited"
    /\ scrapeErr = "too long waiting for comments to load"
    /\ renders = 1
    /\ log = <<"render error">>

\* C4: os.WriteFile is called at most once in a run, and only after a decode
\* has succeeded and CommentsToCSV has returned the whole table of the
\* decoded page, which is what is written to <Name>-comments.csv; a run that
\* fails before the write (invalid URL, render timeout or failure, retries
\* exhausted, export error or panic) calls os.WriteFile never.
C4_NoPartialOutput ==
    /\ Len(files) <= 1
    /\ files /= <<>> =>
          /\ commentResp /= NilPtr
          /\ log /= <<>>
          /\ log[Len(log)] = "decoded"
          /\ commentsAsCSV.err = "nil"
          /\ files[1].name = Filename(aInfo)
          /\ files[1].data = commentsAsCSV.data
          /\ Len(ReadCSV(files[1].data)) =
                Len(commentResp[1].Payload.Page) + 1
    /\ ( /\ pc = "exited"
         /\ exitCode /= 0
         /\ stderr /= <<"Failed to scrape",
                        "failed to save comments to file", "write failed">> )
          => files = <<>>

C4_Witness ==
    /\ pc = "exited"
    /\ exitCode = 0
    /\ Len(files) = 1
    /\ files[1].err = "nil"
    /\ Len(commentResp[1].Payload.Page) = 1

\* C5: whenever the process has ended after the browser was connected, the
\* browser has been closed.
C5_BrowserReleased ==
    (pc = "exited" /\ browser /= "none") => browser = "closed"

\* C6: every page a call of scrapeComments opened is closed when the call
\* has returned: no page is open outside a call, and at most one inside.
C6_PagesReleased ==
    /\ openPages <= 1
    /\ pc \notin {"navigate", "element", "text"} => openPages = 0

(***************************************************************************)
(* Properties of ArticleInfoFromURL.                                       *)
(***************************************************************************)
\* the position of the last "/" of s
LastSlash(s) ==
    LET at == {k \in 1..Len(s) : s[k] = "/"}
    IN  CHOOSE k \in at : \A j \in at : j <= k

\* the first position of the run of digits that ends right before position e
DigitsFrom(s, e) ==
    LET ok == {d \in 1..e : \A j \in d..(e - 1) : s[j] \in Digit}
    IN  CHOOSE d \in ok : \A j \in ok : d <= j

\* the numeric segment of an article URL: the digits before its last "/"
NumericSegment(s) == SubSeq(s, DigitsFrom(s, LastSlash(s)), LastSlash(s) - 1)

\* the trailing filename segment of an article URL, without its .html
TrailingName(s) == SubSeq(s, LastSlash(s) + 1, Len(s) - Len(DotHtml))

\* the URL ends in -<digits>/<slug>.html
IsArticlePath(s) ==
    /\ NumericSegment(s) /= <<>>
    /\ DigitsFrom(s, LastSlash(s)) >= 3
    /\ s[DigitsFrom(s, LastSlash(s)) - 1] = "-"
    /\ s[DigitsFrom(s, LastSlash(s)) - 2] \in LeadClass
    /\ HasAt(s, Len(s) - Len(DotHtml) + 1, DotHtml)
    /\ TrailingName(s) /= <<>>
    /\ \A k \in 1..Len(TrailingName(s)) : TrailingName(s)[k] \in NameClass

\* C9: ArticleInfoFromURL has two outcomes.  For every well-formed URL of
\* host www.dailymail.co.uk whose path ends in -<digits>/<slug>.html, the
\* digits in the range of int, it returns an ArticleInfo whose ID is that
\* numeric segment and whose Name is the trailing filename segment.  For
\* every URL that fails to parse, has another host, holds no match of the
\* pattern or has a matched number out of range, it returns an error
\* wrapping ErrInvalidURL and no ArticleInfo.
C9_ResolverTotal ==
    pc /= "start" =>
       /\ aInfo.ok \/ aInfo.err \in ErrInvalidURL
       /\ ( /\ ~ParseFails(rawURL)
            /\ Hostname(rawURL) = WantedHost
            /\ IsArticlePath(rawURL)
            /\ InIntRange(NumericSegment(rawURL)) )
          => /\ aInfo.ok
             /\ aInfo.ID = DecValue(NumericSegment(rawURL), 0)
             /\ aInfo.Name = TrailingName(rawURL)
       /\ ( \/ ParseFails(rawURL)
            \/ Hostname(rawURL) /= WantedHost
            \/ ~FindStringSubmatch(URLString(rawURL)).match
            \/ ~InIntRange(FindStringSubmatch(URLString(rawURL)).g1) )
          => /\ ~aInfo.ok
             /\ aInfo.err \in ErrInvalidURL

\* C10: every ArticleInfo that ArticleInfoFromURL returned has ID > 0 and a
\* non-empty Name, is still what was constructed from the URL at every later
\* point of the run, and names the output file.
C10_ValidRef ==
    aInfo.ok =>
       /\ aInfo.ID > 0
       /\ aInfo.Name /= <<>>
       /\ aInfo = ArticleInfoFromURL(rawURL)
       /\ \A k \in 1..Len(files) : files[k].name = Filename(aInfo)

====
